---- MODULE Spec2Model ----
(***************************************************************************)
(* Model of the AD56X4 quad DAC driver (AD56X4.h, AD56X4.cpp).             *)
(*                                                                         *)
(* The driver keeps no state of its own.  What it acts on is the host's    *)
(* pin levels and SPI configuration, and what it produces is a sequence of *)
(* transport events (digitalWrite and SPI.transfer calls).  The model      *)
(* records, for the operation that ran last, its arguments (call) and the  *)
(* events it issued (trace).                                               *)
(***************************************************************************)
EXTENDS Integers, Sequences, FiniteSets, TLC

VARIABLES
    pins,       \* level last written to each chip-select pin
    dataMode,   \* SPI data mode in effect
    bitOrder,   \* SPI bit order in effect
    trace,      \* transport events issued by the operation that ran last
    call        \* that operation: its name, SS_pin and arguments

vars == <<pins, dataMode, bitOrder, trace, call>>

----------------------------------------------------------------------------
(* Bounds and input sets *)

\* number of chip-select pins the caller uses
NumPins == 2

Pins == 1..NumPins

\* bytes a data word is built from: both ends of the range, the lowest and
\* the highest bit alone, alternating bits, and the two bytes of the
\* documented example 0x0ABC
ByteSamples == {0, 1, 10, 85, 128, 188, 255}

\* 16-bit values for single-value operations
WordSamples == {hi * 256 + lo : hi \in ByteSamples, lo \in ByteSamples}

\* 16-bit values for the four-value operations (0x0000, 0x0ABC, 0xFFFF)
ValueSamples == {0, 2748, 65535}

----------------------------------------------------------------------------
(* Constants of AD56X4.h and of the Arduino core *)

AD56X4_COMMAND_WRITE_INPUT_REGISTER == 0
AD56X4_COMMAND_UPDATE_DAC_REGISTER == 8
AD56X4_COMMAND_WRITE_INPUT_REGISTER_UPDATE_ALL == 16
AD56X4_COMMAND_WRITE_UPDATE_CHANNEL == 24
AD56X4_COMMAND_POWER_UPDOWN == 32
AD56X4_COMMAND_RESET == 40
AD56X4_COMMAND_SET_LDAC == 48
AD56X4_COMMAND_REFERENCE_ONOFF == 56

AD56X4_CHANNEL_A == 0
AD56X4_CHANNEL_B == 1
AD56X4_CHANNEL_C == 2
AD56X4_CHANNEL_D == 3
AD56X4_CHANNEL_ALL == 7

AD56X4_SETMODE_INPUT == AD56X4_COMMAND_WRITE_INPUT_REGISTER
AD56X4_SETMODE_INPUT_DAC == AD56X4_COMMAND_WRITE_UPDATE_CHANNEL
AD56X4_SETMODE_INPUT_DAC_ALL == AD56X4_COMMAND_WRITE_INPUT_REGISTER_UPDATE_ALL

AD56X4_POWERMODE_NORMAL == 0
AD56X4_POWERMODE_POWERDOWN_1K == 16
AD56X4_POWERMODE_POWERDOWN_100K == 32
AD56X4_POWERMODE_TRISTATE == 48

LOW == 0
HIGH == 1

SPI_MODE1 == "SPI_MODE1"
MSBFIRST == "MSBFIRST"

Commands ==
    { AD56X4_COMMAND_WRITE_INPUT_REGISTER, AD56X4_COMMAND_UPDATE_DAC_REGISTER,
      AD56X4_COMMAND_WRITE_INPUT_REGISTER_UPDATE_ALL,
      AD56X4_COMMAND_WRITE_UPDATE_CHANNEL, AD56X4_COMMAND_POWER_UPDOWN,
      AD56X4_COMMAND_RESET, AD56X4_COMMAND_SET_LDAC,
      AD56X4_COMMAND_REFERENCE_ONOFF }

Channels ==
    { AD56X4_CHANNEL_A, AD56X4_CHANNEL_B, AD56X4_CHANNEL_C, AD56X4_CHANNEL_D,
      AD56X4_CHANNEL_ALL }

SetModes ==
    { AD56X4_SETMODE_INPUT, AD56X4_SETMODE_INPUT_DAC,
      AD56X4_SETMODE_INPUT_DAC_ALL }

PowerModes ==
    { AD56X4_POWERMODE_NORMAL, AD56X4_POWERMODE_POWERDOWN_1K,
      AD56X4_POWERMODE_POWERDOWN_100K, AD56X4_POWERMODE_TRISTATE }

\* setMode bytes a caller may pass: the three set modes, two other command
\* codes, a set mode with a channel or'ed in, and 0xFF
SetModeBytes ==
    SetModes \cup { AD56X4_COMMAND_UPDATE_DAC_REGISTER,
                    AD56X4_COMMAND_POWER_UPDOWN, 25, 255 }

\* channel bytes a caller may pass: the five channels and bytes with bits
\* outside the low three set
ChannelBytes == Channels \cup {4, 11, 255}

\* power mode bytes a caller may pass: the four modes and bytes with bits
\* outside bits 5:4 set
PowerModeBytes == PowerModes \cup {79, 255}

----------------------------------------------------------------------------
(* Fixed-width integer arithmetic *)

RECURSIVE BitAnd(_, _)
BitAnd(a, b) ==
    IF a = 0 \/ b = 0 THEN 0
    ELSE (a % 2) * (b % 2) + 2 * BitAnd(a \div 2, b \div 2)

RECURSIVE BitOr(_, _)
BitOr(a, b) ==
    IF a = 0 THEN b
    ELSE IF b = 0 THEN a
    ELSE (IF a % 2 = 1 \/ b % 2 = 1 THEN 1 ELSE 0)
         + 2 * BitOr(a \div 2, b \div 2)

\* conversion to byte (uint8_t) and to word (uint16_t)
ToByte(x) == x % 256
ToWord(x) == x % 65536

\* byte(b) of a boolean
BoolByte(b) == IF b THEN 1 ELSE 0

highByte(w) == ToByte(w \div 256)
lowByte(w) == ToByte(BitAnd(w, 255))

----------------------------------------------------------------------------
(* The transport: pin and SPI primitives of the Arduino core, as the      *)
(* driver uses them.  st is the host state an operation runs against:     *)
(* [pins, dataMode, bitOrder, trace].                                     *)

SPI_setDataMode(st, mode) == [st EXCEPT !.dataMode = mode]

SPI_setBitOrder(st, order) == [st EXCEPT !.bitOrder = order]

\* digitalWrite(pin, val): the pin takes the level, and the write is logged
digitalWrite(st, pin, val) ==
    [st EXCEPT !.pins[pin] = val,
               !.trace = Append(@, [kind |-> "digitalWrite", pin |-> pin,
                                    val |-> val])]

\* SPI.transfer(b): the byte goes out under the pin levels and the SPI
\* configuration of that moment, which the log keeps with it
SPI_transfer(st, b) ==
    [st EXCEPT !.trace = Append(@, [kind |-> "transfer", val |-> b,
                                    lines |-> st.pins,
                                    dataMode |-> st.dataMode,
                                    bitOrder |-> st.bitOrder])]

----------------------------------------------------------------------------
(* AD56X4Class *)

\* a faulty firstByte: the two field masks exchanged
firstByte_swappedMasks(command, address) ==
    BitOr(BitAnd(command, 7), BitAnd(address, 56))

\* a faulty firstByte: the address is or'ed in without its mask
firstByte_unmaskedAddress(command, address) ==
    BitOr(BitAnd(command, 56), address)

\* first byte of a message: two bits of nothing, command bits, address bits
firstByte(command, address) == BitOr(BitAnd(command, 56), BitAnd(address, 7))

\* a faulty writeMessage: the Slave Select pin is never set back to HIGH
writeMessage_noRelease(st, SS_pin, command, address, data) ==
    LET s1 == SPI_setDataMode(st, SPI_MODE1)
        s2 == SPI_setBitOrder(s1, MSBFIRST)
        s3 == digitalWrite(s2, SS_pin, LOW)
        s4 == SPI_transfer(s3, firstByte(command, address))
        s5 == SPI_transfer(s4, highByte(data))
    IN  SPI_transfer(s5, lowByte(data))

writeMessage(st, SS_pin, command, address, data) ==
    LET s1 == SPI_setDataMode(st, SPI_MODE1)
        s2 == SPI_setBitOrder(s1, MSBFIRST)
        s3 == digitalWrite(s2, SS_pin, LOW)
        s4 == SPI_transfer(s3, firstByte(command, address))
        s5 == SPI_transfer(s4, highByte(data))
        s6 == SPI_transfer(s5, lowByte(data))
    IN  digitalWrite(s6, SS_pin, HIGH)

\* a faulty makeChannelMask: the array read in A to D order
makeChannelMask_array_reversed(channels) ==
    ToWord(BitOr(BitOr(BoolByte(channels[4]) * 8, BoolByte(channels[3]) * 4),
                 BitOr(BoolByte(channels[2]) * 2, BoolByte(channels[1]))))

makeChannelMask_array(channels) ==
    ToWord(BitOr(BitOr(BoolByte(channels[1]) * 8, BoolByte(channels[2]) * 4),
                 BitOr(BoolByte(channels[3]) * 2, BoolByte(channels[4]))))

\* a faulty makeChannelMask: C and B shifted into each other's bit
makeChannelMask_DCBA_swapped(channel_D, channel_C, channel_B, channel_A) ==
    ToWord(BitOr(BitOr(BoolByte(channel_D) * 8, BoolByte(channel_C) * 2),
                 BitOr(BoolByte(channel_B) * 4, BoolByte(channel_A))))

makeChannelMask_DCBA(channel_D, channel_C, channel_B, channel_A) ==
    ToWord(BitOr(BitOr(BoolByte(channel_D) * 8, BoolByte(channel_C) * 4),
                 BitOr(BoolByte(channel_B) * 2, BoolByte(channel_A))))

\* a faulty validSetMode: any of the 8 command codes is accepted
validSetMode_anyCommand(setMode) == BitAnd(setMode, 56) = setMode

validSetMode(setMode) ==
    \/ setMode = AD56X4_SETMODE_INPUT
    \/ setMode = AD56X4_SETMODE_INPUT_DAC
    \/ setMode = AD56X4_SETMODE_INPUT_DAC_ALL

\* a faulty setChannel: command and address passed in each other's place
setChannel_channel_swapped(st, SS_pin, setMode, channel, value) ==
    IF validSetMode(setMode)
    THEN writeMessage(st, SS_pin, channel, setMode, value)
    ELSE st

setChannel_channel(st, SS_pin, setMode, channel, value) ==
    IF validSetMode(setMode)
    THEN writeMessage(st, SS_pin, setMode, channel, value)
    ELSE st

\* a faulty loop: channel i is sent values[i], the array read in A to D order
RECURSIVE setChannel_loop_sameIndex(_, _, _, _, _)
setChannel_loop_sameIndex(st, SS_pin, setMode, values, i) ==
    IF i >= 0
    THEN setChannel_loop_sameIndex(
             writeMessage(st, SS_pin, setMode, ToByte(i), values[i + 1]),
             SS_pin, setMode, values, i - 1)
    ELSE st

\* a faulty loop: the channels are sent in A to D order (i counts up), each
\* still with its own value
RECURSIVE setChannel_loop_ascending(_, _, _, _, _)
setChannel_loop_ascending(st, SS_pin, setMode, values, i) ==
    IF i >= 0
    THEN writeMessage(
             setChannel_loop_ascending(st, SS_pin, setMode, values, i - 1),
             SS_pin, setMode, ToByte(i), values[(3 - i) + 1])
    ELSE st

\* for (int i = 3; i >= 0; i--) writeMessage(SS_pin,setMode,i,values[3-i]);
\* values is a C array, so values[3-i] is element (3-i)+1 of the sequence
RECURSIVE setChannel_loop(_, _, _, _, _)
setChannel_loop(st, SS_pin, setMode, values, i) ==
    IF i >= 0
    THEN setChannel_loop(
             writeMessage(st, SS_pin, setMode, ToByte(i), values[(3 - i) + 1]),
             SS_pin, setMode, values, i - 1)
    ELSE st

setChannel_array(st, SS_pin, setMode, values) ==
    IF validSetMode(setMode)
    THEN setChannel_loop(st, SS_pin, setMode, values, 3)
    ELSE st

setChannel_DCBA(st, SS_pin, setMode, value_D, value_C, value_B, value_A) ==
    setChannel_array(st, SS_pin, setMode,
                     <<value_D, value_C, value_B, value_A>>)

updateChannel(st, SS_pin, channel) ==
    writeMessage(st, SS_pin, AD56X4_COMMAND_UPDATE_DAC_REGISTER, channel, 0)

\* a faulty powerData: the power mode is or'ed in without its mask
powerData_unmaskedMode(powerMode, channelMask) ==
    ToWord(BitOr(powerMode, BitAnd(15, channelMask)))

\* data word of a power up-down message
powerData(powerMode, channelMask) ==
    ToWord(BitOr(BitAnd(48, powerMode), BitAnd(15, channelMask)))

powerUpDown_mask(st, SS_pin, powerMode, channelMask) ==
    writeMessage(st, SS_pin, AD56X4_COMMAND_POWER_UPDOWN, 0,
                 powerData(powerMode, channelMask))

\* the word makeChannelMask returns is passed as the byte channelMask
powerUpDown_array(st, SS_pin, powerMode, channels) ==
    powerUpDown_mask(st, SS_pin, powerMode,
                     ToByte(makeChannelMask_array(channels)))

powerUpDown_DCBA(st, SS_pin, powerMode, channel_D, channel_C, channel_B, channel_A) ==
    powerUpDown_mask(st, SS_pin, powerMode,
                     ToByte(makeChannelMask_DCBA(channel_D, channel_C,
                                                 channel_B, channel_A)))

\* a faulty loop: the channel mask is never shifted
RECURSIVE powerUpDown_loop_noShift(_, _, _, _, _)
powerUpDown_loop_noShift(st, SS_pin, powerModes, i, channelMask) ==
    IF i < 4
    THEN powerUpDown_loop_noShift(
             writeMessage(st, SS_pin, AD56X4_COMMAND_POWER_UPDOWN, 0,
                          powerData(powerModes[i + 1], channelMask)),
             SS_pin, powerModes, i + 1, channelMask)
    ELSE st

\* for (int i = 0; i < 4; i++) { writeMessage(...); channelMask <<= 1; }
RECURSIVE powerUpDown_loop(_, _, _, _, _)
powerUpDown_loop(st, SS_pin, powerModes, i, channelMask) ==
    IF i < 4
    THEN powerUpDown_loop(
             writeMessage(st, SS_pin, AD56X4_COMMAND_POWER_UPDOWN, 0,
                          powerData(powerModes[i + 1], channelMask)),
             SS_pin, powerModes, i + 1, ToByte(channelMask * 2))
    ELSE st

powerUpDown_modes(st, SS_pin, powerModes) ==
    powerUpDown_loop(st, SS_pin, powerModes, 0, 1)

\* a faulty reset: the data word is 1 whatever fullReset is
reset_alwaysFull(st, SS_pin, fullReset) ==
    writeMessage(st, SS_pin, AD56X4_COMMAND_RESET, 0, ToWord(1))

reset(st, SS_pin, fullReset) ==
    writeMessage(st, SS_pin, AD56X4_COMMAND_RESET, 0,
                 ToWord(BoolByte(fullReset)))

setInputMode_mask(st, SS_pin, channelMask) ==
    writeMessage(st, SS_pin, AD56X4_COMMAND_SET_LDAC, 0, ToWord(channelMask))

setInputMode_array(st, SS_pin, channels) ==
    setInputMode_mask(st, SS_pin, ToByte(makeChannelMask_array(channels)))

setInputMode_DCBA(st, SS_pin, channel_D, channel_C, channel_B, channel_A) ==
    setInputMode_mask(st, SS_pin,
                      ToByte(makeChannelMask_DCBA(channel_D, channel_C,
                                                  channel_B, channel_A)))

\* a faulty useInternalReference: the flag is sent inverted
useInternalReference_inverted(st, SS_pin, yesno) ==
    writeMessage(st, SS_pin, AD56X4_COMMAND_REFERENCE_ONOFF, 0,
                 ToWord(BoolByte(~yesno)))

useInternalReference(st, SS_pin, yesno) ==
    writeMessage(st, SS_pin, AD56X4_COMMAND_REFERENCE_ONOFF, 0,
                 ToWord(BoolByte(yesno)))

----------------------------------------------------------------------------
(* The state machine *)

NoCall == [name |-> "none", SS_pin |-> 0, args |-> <<>>]

\* the host state an operation starts from; its events are logged afresh
Host == [pins |-> pins, dataMode |-> dataMode, bitOrder |-> bitOrder,
         trace |-> <<>>]

\* The driver never configures a pin and has no constructor: the pin levels
\* and the SPI configuration it finds are whatever the sketch left.
Init ==
    /\ pins \in [Pins -> {LOW, HIGH}]
    /\ dataMode \in {"SPI_MODE0", SPI_MODE1}
    /\ bitOrder \in {"LSBFIRST", MSBFIRST}
    /\ trace = <<>>
    /\ call = NoCall

\* operation name(SS_pin, args) has run to completion and left the host as r
Ran(name, SS_pin, args, r) ==
    /\ pins' = r.pins
    /\ dataMode' = r.dataMode
    /\ bitOrder' = r.bitOrder
    /\ trace' = r.trace
    /\ call' = [name |-> name, SS_pin |-> SS_pin, args |-> args]

Quads(S) == {<<a, b, c, d>> : a \in S, b \in S, c \in S, d \in S}

PowerModeQuads == Quads(PowerModes) \cup Quads({79, 255})

SetChannel_channel ==
    /\ call = NoCall
    /\ \E p \in Pins, m \in SetModeBytes, c \in ChannelBytes, v \in WordSamples :
           Ran("setChannel_channel", p, <<m, c, v>>,
               setChannel_channel(Host, p, m, c, v))

SetChannel_array ==
    /\ call = NoCall
    /\ \E p \in Pins, m \in SetModeBytes, v \in Quads(ValueSamples) :
           Ran("setChannel_array", p, <<m, v[1], v[2], v[3], v[4]>>,
               setChannel_array(Host, p, m, v))

SetChannel_DCBA ==
    /\ call = NoCall
    /\ \E p \in Pins, m \in SetModeBytes, v \in Quads(ValueSamples) :
           Ran("setChannel_DCBA", p, <<m, v[1], v[2], v[3], v[4]>>,
               setChannel_DCBA(Host, p, m, v[1], v[2], v[3], v[4]))

UpdateChannel ==
    /\ call = NoCall
    /\ \E p \in Pins, c \in ChannelBytes :
           Ran("updateChannel", p, <<c>>, updateChannel(Host, p, c))

PowerUpDown_array ==
    /\ call = NoCall
    /\ \E p \in Pins, m \in PowerModeBytes, b \in Quads(BOOLEAN) :
           Ran("powerUpDown_array", p, <<m, b[1], b[2], b[3], b[4]>>,
               powerUpDown_array(Host, p, m, b))

PowerUpDown_DCBA ==
    /\ call = NoCall
    /\ \E p \in Pins, m \in PowerModeBytes, b \in Quads(BOOLEAN) :
           Ran("powerUpDown_DCBA", p, <<m, b[1], b[2], b[3], b[4]>>,
               powerUpDown_DCBA(Host, p, m, b[1], b[2], b[3], b[4]))

PowerUpDown_modes ==
    /\ call = NoCall
    /\ \E p \in Pins, m \in PowerModeQuads :
           Ran("powerUpDown_modes", p, m, powerUpDown_modes(Host, p, m))

Reset ==
    /\ call = NoCall
    /\ \E p \in Pins, f \in BOOLEAN :
           Ran("reset", p, <<f>>, reset(Host, p, f))

SetInputMode_array ==
    /\ call = NoCall
    /\ \E p \in Pins, b \in Quads(BOOLEAN) :
           Ran("setInputMode_array", p, b, setInputMode_array(Host, p, b))

SetInputMode_DCBA ==
    /\ call = NoCall
    /\ \E p \in Pins, b \in Quads(BOOLEAN) :
           Ran("setInputMode_DCBA", p, b,
               setInputMode_DCBA(Host, p, b[1], b[2], b[3], b[4]))

UseInternalReference ==
    /\ call = NoCall
    /\ \E p \in Pins, y \in BOOLEAN :
           Ran("useInternalReference", p, <<y>>, useInternalReference(Host, p, y))

\* the operation has returned; the sketch goes on, and the record of the
\* call is dropped before the next one is made
Return ==
    /\ call # NoCall
    /\ trace' = <<>>
    /\ call' = NoCall
    /\ UNCHANGED <<pins, dataMode, bitOrder>>

Next ==
    \/ SetChannel_channel
    \/ SetChannel_array
    \/ SetChannel_DCBA
    \/ UpdateChannel
    \/ PowerUpDown_array
    \/ PowerUpDown_DCBA
    \/ PowerUpDown_modes
    \/ Reset
    \/ SetInputMode_array
    \/ SetInputMode_DCBA
    \/ UseInternalReference
    \/ Return

Spec == Init /\ [][Next]_vars

\* writeMessage on its own, over every command and address code
WriteMessage ==
    /\ call = NoCall
    /\ \E p \in Pins, c \in Commands, a \in Channels, d \in WordSamples :
           Ran("writeMessage", p, <<c, a, d>>, writeMessage(Host, p, c, a, d))

NextWriteMessage ==
    \/ WriteMessage
    \/ Return

SpecWriteMessage == Init /\ [][NextWriteMessage]_vars

----------------------------------------------------------------------------
(* Reading the transport trace *)

\* the number of complete 5-event units the trace holds
NumUnits(tr) == Len(tr) \div 5

\* events 5k-4..5k of tr are one frame: SS_pin driven LOW, three bytes
\* transferred while that pin is LOW, the same pin driven HIGH
IsUnit(tr, k) ==
    LET lo == tr[5 * k - 4]
        hi == tr[5 * k]
    IN  /\ lo.kind = "digitalWrite" /\ lo.val = LOW
        /\ \A j \in 1..3 :
               /\ tr[5 * k - 4 + j].kind = "transfer"
               /\ tr[5 * k - 4 + j].lines[lo.pin] = LOW
        /\ hi.kind = "digitalWrite" /\ hi.val = HIGH /\ hi.pin = lo.pin

WellFramed(tr) ==
    /\ Len(tr) % 5 = 0
    /\ \A k \in 1..NumUnits(tr) : IsUnit(tr, k)

\* the operation that ran last emitted exactly n frames and nothing else
EmitsExactly(n) == WellFramed(trace) /\ Len(trace) = 5 * n

\* the three bytes of each frame, in the order the frames were sent
Frames(tr) ==
    [k \in 1..NumUnits(tr) |->
        <<tr[5 * k - 3].val, tr[5 * k - 2].val, tr[5 * k - 1].val>>]

\* fields of a frame f = <<byte0, byte1, byte2>>
TopBits(f) == f[1] \div 64
CommandBits(f) == (f[1] \div 8) % 8
AddressBits(f) == f[1] % 8
Data(f) == f[2] * 256 + f[3]

\* 8*D + 4*C + 2*B + A of four booleans
MaskOf(D, C, B, A) ==
    8 * BoolByte(D) + 4 * BoolByte(C) + 2 * BoolByte(B) + BoolByte(A)

----------------------------------------------------------------------------
(* Properties *)

\* C1: for each of the 8 command codes, each address in {A, B, C, D, ALL}
\* and each data word, writeMessage transfers exactly three bytes, in this
\* order: byte0 with bits 7:6 zero, bits 5:3 the command's 3-bit code and
\* bits 2:0 the address's 3-bit code; byte1 = data >> 8; byte2 = data & 0xFF.
C1_WriteMessageBytes ==
    call.name = "writeMessage" =>
        LET T == SelectSeq(trace, LAMBDA e : e.kind = "transfer")
            command == call.args[1]
            address == call.args[2]
            data == call.args[3]
        IN  /\ Len(T) = 3
            /\ T[1].val \div 64 = 0
            /\ (T[1].val \div 8) % 8 = command \div 8
            /\ T[1].val % 8 = address
            /\ T[2].val = data \div 256
            /\ T[3].val = data % 256

C1_Witness ==
    /\ call.name = "writeMessage"
    /\ call.args = <<AD56X4_COMMAND_RESET, AD56X4_CHANNEL_ALL, 2748>>
    /\ Len(trace) = 5

\* C2: whatever operations ran on whatever pins, the transport events an
\* operation issues are a concatenation of complete units [SS_pin LOW,
\* byte, byte, byte, same SS_pin HIGH] on the operation's own pin: no byte
\* goes out while that pin is HIGH, no unit has more or fewer than three
\* bytes, units do not overlap, and the pin is HIGH once the operation
\* that drove it has returned.
C2_CompleteUnits ==
    /\ WellFramed(trace)
    /\ \A k \in 1..NumUnits(trace) :
           /\ trace[5 * k].pin = call.SS_pin
           /\ pins[trace[5 * k].pin] = HIGH

\* a four-frame operation on pin 2 while pin 1 sits LOW
C2_Witness ==
    /\ Len(trace) = 20
    /\ call.SS_pin = 2
    /\ pins[1] = LOW

\* C3: with a recognized setMode, setChannel with four values (array or
\* value_D, value_C, value_B, value_A) emits exactly 4 frames, addressed to
\* the four distinct channels A..D and never ALL, each with the command
\* code of setMode; the frame to D carries values[0], to C values[1], to B
\* values[2], to A values[3]; and both forms emit the same frame sequence
\* for the same values.
C3_FourValues ==
    call.name \in {"setChannel_array", "setChannel_DCBA"}
      /\ call.args[1] \in SetModes =>
        LET F == Frames(trace)
            m == call.args[1]
            v == <<call.args[2], call.args[3], call.args[4], call.args[5]>>
            other ==
                IF call.name = "setChannel_array"
                THEN setChannel_DCBA(Host, call.SS_pin, m,
                                     v[1], v[2], v[3], v[4])
                ELSE setChannel_array(Host, call.SS_pin, m, v)
        IN  /\ EmitsExactly(4)
            /\ {AddressBits(F[k]) : k \in 1..4}
                 = {AD56X4_CHANNEL_A, AD56X4_CHANNEL_B, AD56X4_CHANNEL_C,
                    AD56X4_CHANNEL_D}
            /\ \A k \in 1..4 :
                   /\ TopBits(F[k]) = 0
                   /\ CommandBits(F[k]) = m \div 8
                   /\ Data(F[k]) = v[4 - AddressBits(F[k])]
            /\ F = Frames(other.trace)

C3_Witness ==
    /\ call.name = "setChannel_DCBA"
    /\ call.args = <<AD56X4_SETMODE_INPUT_DAC, 0, 2748, 65535, 2748>>
    /\ Len(trace) = 20

\* C4: with a setMode byte other than the three recognized codes, each of
\* the three setChannel forms emits no frame and leaves every pin (and the
\* SPI configuration) as it found it, so the call cannot be told from no
\* call at all, however often it is made.
C4_InvalidSetModeNoOp ==
    [][ (/\ call'.name \in {"setChannel_channel", "setChannel_array",
                            "setChannel_DCBA"}
         /\ call'.args[1] \notin {0, 24, 16})
        => (trace' = <<>> /\ UNCHANGED <<pins, dataMode, bitOrder>>) ]_vars

\* an unrecognized setMode on a pin that is LOW: the pin stays LOW
C4_Witness ==
    /\ call.name = "setChannel_array"
    /\ call.args[1] = AD56X4_COMMAND_UPDATE_DAC_REGISTER
    /\ trace = <<>>
    /\ pins[call.SS_pin] = LOW

C6_ModesArrayDtoA ==
    call.name = "powerUpDown_modes" =>
        LET F == Frames(trace)
        IN  \A k \in 0..3 :
                \E j \in 1..NumUnits(trace) :
                    /\ Data(F[j]) % 16 = 2 ^ (3 - k)
                    /\ (Data(F[j]) \div 16) % 4 = (call.args[k + 1] \div 16) % 4

\* C7: powerUpDown with one power mode and four channel booleans (array in
\* D,C,B,A order or four arguments) emits exactly one frame: command
\* power-updown, address A, data high byte 0, data low byte = mode in bits
\* 5:4 plus 8*D + 4*C + 2*B + A in bits 3:0, bits 7:6 zero; both forms emit
\* the same frame for the same booleans.
C7_OneModeFrame ==
    call.name \in {"powerUpDown_array", "powerUpDown_DCBA"} =>
        LET F == Frames(trace)
            m == call.args[1]
            b == <<call.args[2], call.args[3], call.args[4], call.args[5]>>
            other ==
                IF call.name = "powerUpDown_array"
                THEN powerUpDown_DCBA(Host, call.SS_pin, m,
                                      b[1], b[2], b[3], b[4])
                ELSE powerUpDown_array(Host, call.SS_pin, m, b)
        IN  /\ EmitsExactly(1)
            /\ TopBits(F[1]) = 0
            /\ CommandBits(F[1]) = 4
            /\ AddressBits(F[1]) = AD56X4_CHANNEL_A
            /\ F[1][2] = 0
            /\ F[1][3] = 16 * ((m \div 16) % 4) + MaskOf(b[1], b[2], b[3], b[4])
            /\ F = Frames(other.trace)

C7_Witness ==
    /\ call.name = "powerUpDown_array"
    /\ call.args = <<AD56X4_POWERMODE_POWERDOWN_100K, TRUE, FALSE, TRUE, TRUE>>
    /\ Len(trace) = 5

\* C8: setInputMode with four channel booleans (array in D,C,B,A order or
\* four arguments) emits exactly one frame, command set-ldac, data =
\* 8*D + 4*C + 2*B + A, so no data bit outside the low 4 is set; the 16
\* boolean combinations give 16 distinct masks, and the two makeChannelMask
\* overloads return the same mask for the same booleans.
C8_InputModeMask ==
    call.name \in {"setInputMode_array", "setInputMode_DCBA"} =>
        LET F == Frames(trace)
            b == call.args
            Masks == {makeChannelMask_DCBA(q[1], q[2], q[3], q[4]) :
                          q \in Quads(BOOLEAN)}
        IN  /\ EmitsExactly(1)
            /\ TopBits(F[1]) = 0
            /\ CommandBits(F[1]) = 6
            /\ Data(F[1]) = MaskOf(b[1], b[2], b[3], b[4])
            /\ Data(F[1]) \div 16 = 0
            /\ Data(F[1]) = makeChannelMask_DCBA(b[1], b[2], b[3], b[4])
            /\ makeChannelMask_array(b)
                 = makeChannelMask_DCBA(b[1], b[2], b[3], b[4])
            /\ Cardinality(Masks) = 16

C8_Witness ==
    /\ call.name = "setInputMode_DCBA"
    /\ call.args = <<TRUE, FALSE, FALSE, TRUE>>
    /\ Len(trace) = 5

\* C9: reset(pin, fullReset) emits exactly one frame and nothing more:
\* byte0 = 0x28, byte1 = 0x00, byte2 = 0x01 if fullReset and 0x00 if not.
C9_ResetFrame ==
    call.name = "reset" =>
        /\ EmitsExactly(1)
        /\ Frames(trace)
             = << <<40, 0, IF call.args[1] THEN 1 ELSE 0>> >>

C9_Witness ==
    /\ call.name = "reset"
    /\ call.args = <<FALSE>>
    /\ Len(trace) = 5

\* C10: setChannel with a recognized setMode, one channel in {A, B, C, D,
\* ALL} and a 16-bit value emits exactly one frame: byte0 = command code of
\* setMode in bits 5:3 and channel code in bits 2:0, byte1 = value >> 8,
\* byte2 = value & 0xFF.  setChannel(pin, INPUT_DAC, CHANNEL_B, 0x0ABC)
\* emits [0x19, 0x0A, 0xBC].
C10_SingleChannelFrame ==
    call.name = "setChannel_channel"
      /\ call.args[1] \in SetModes /\ call.args[2] \in Channels =>
        LET m == call.args[1]
            c == call.args[2]
            v == call.args[3]
        IN  /\ EmitsExactly(1)
            /\ Frames(trace) = << <<8 * (m \div 8) + c, v \div 256, v % 256>> >>
            /\ (m = AD56X4_SETMODE_INPUT_DAC /\ c = AD56X4_CHANNEL_B
                  /\ v = 2748
                => Frames(trace) = << <<25, 10, 188>> >>)

C10_Witness ==
    /\ call.name = "setChannel_channel"
    /\ call.args = <<AD56X4_SETMODE_INPUT_DAC, AD56X4_CHANNEL_B, 2748>>
    /\ Len(trace) = 5

\* C11: useInternalReference(pin, yesno) emits exactly one frame: byte0 =
\* 0x38, byte1 = 0x00, byte2 = 0x01 if yesno and 0x00 if not.
\* useInternalReference(pin, false) emits [0x38, 0x00, 0x00].
C11_ReferenceFrame ==
    call.name = "useInternalReference" =>
        /\ EmitsExactly(1)
        /\ Frames(trace)
             = << <<56, 0, IF call.args[1] THEN 1 ELSE 0>> >>
        /\ (call.args[1] = FALSE => Frames(trace) = << <<56, 0, 0>> >>)

C11_Witness ==
    /\ call.name = "useInternalReference"
    /\ call.args = <<FALSE>>
    /\ Len(trace) = 5

\* C12: with a recognized setMode, the four frames of a four-value
\* setChannel go out in the order D, C, B, A: the frame carrying values[0]
\* (address D) is first on the wire, the one carrying values[3] (address A)
\* is last, and each frame is complete, its chip-select released, before
\* the next one begins.
C12_OrderDCBA ==
    call.name \in {"setChannel_array", "setChannel_DCBA"}
      /\ call.args[1] \in {0, 24, 16} =>
        LET F == Frames(trace)
        IN  /\ EmitsExactly(4)
            /\ \A k \in 1..4 :
                   /\ AddressBits(F[k]) = 4 - k
                   /\ Data(F[k]) = call.args[k + 1]
            /\ \A k \in 1..3 :
                   /\ trace[5 * k].kind = "digitalWrite"
                   /\ trace[5 * k].val = HIGH
                   /\ trace[5 * k + 1].kind = "digitalWrite"
                   /\ trace[5 * k + 1].val = LOW
                   /\ trace[5 * k + 1].pin = trace[5 * k].pin

\* four values of which the first and the last differ
C12_Witness ==
    /\ call.name = "setChannel_array"
    /\ call.args = <<AD56X4_SETMODE_INPUT, 65535, 2748, 2748, 0>>
    /\ Len(trace) = 20

\* the 3-bit command code the operation that ran last is to send
CommandCodeOfCall ==
    CASE call.name \in {"setChannel_channel", "setChannel_array",
                        "setChannel_DCBA"} -> call.args[1] \div 8
      [] call.name = "updateChannel" -> 1
      [] call.name \in {"powerUpDown_array", "powerUpDown_DCBA",
                        "powerUpDown_modes"} -> 4
      [] call.name = "reset" -> 5
      [] call.name \in {"setInputMode_array", "setInputMode_DCBA"} -> 6
      [] call.name = "useInternalReference" -> 7

\* C13: whatever 8-bit values a public operation is given for its byte
\* arguments (channel, powerMode, powerModes[i]), in or out of the
\* enumerated sets, every frame it emits has byte0 bits 7:6 zero and byte0
\* bits 5:3 equal to the operation's command code: the bits of a channel
\* byte outside its low three never reach the command field, and the bits
\* of a power mode byte outside bits 5:4 neither change the channel mask in
\* data bits 3:0 nor set a data bit above bit 5.
C13_FieldsStayInPlace ==
    call.name \notin {"none", "writeMessage"} =>
        LET F == Frames(trace)
        IN  /\ WellFramed(trace)
            /\ \A k \in 1..NumUnits(trace) :
                   /\ TopBits(F[k]) = 0
                   /\ CommandBits(F[k]) = CommandCodeOfCall
            /\ (call.name \in {"setChannel_channel"} =>
                   \A k \in 1..NumUnits(trace) :
                       AddressBits(F[k]) = call.args[2] % 8)
            /\ (call.name = "updateChannel" =>
                   /\ NumUnits(trace) = 1
                   /\ AddressBits(F[1]) = call.args[1] % 8)
            /\ (call.name \in {"powerUpDown_array", "powerUpDown_DCBA"} =>
                   /\ NumUnits(trace) = 1
                   /\ Data(F[1]) % 16
                        = MaskOf(call.args[2], call.args[3], call.args[4],
                                 call.args[5])
                   /\ Data(F[1]) \div 64 = 0)
            /\ (call.name = "powerUpDown_modes" =>
                   /\ NumUnits(trace) = 4
                   /\ \A k \in 0..3 :
                          /\ Data(F[k + 1]) % 16 = 2 ^ k
                          /\ Data(F[k + 1]) \div 64 = 0)

\* a channel byte with bit 3 set, which lies in the command field
C13_Witness ==
    /\ call.name = "setChannel_channel"
    /\ call.args = <<AD56X4_SETMODE_INPUT, 11, 2748>>
    /\ Len(trace) = 5

====
